---- MODULE Spec2Model ----
(***************************************************************************)
(* The three record-keeping tools of the repository: Expense_Tracker_CLI,  *)
(* Habit_Tracker and To-Do_List_Application.  Each is one process that     *)
(* loads a JSON file into an in-memory list, then serves menu commands,    *)
(* rewriting the whole file after every mutation.                          *)
(*                                                                         *)
(* Representation.  A Python dict is a record; the key "created on" is     *)
(* written created_on.  An ISO date string "YYYY-MM-DD" is the tuple       *)
(* <<YYYY, MM, DD>> of its three fields; a date object is a record with    *)
(* fields year, month, day.  A JSON text is the sequence of its encoded    *)
(* items, every scalar tagged with its JSON type.                          *)
(***************************************************************************)
EXTENDS Integers, Sequences, FiniteSets, TLC

VARIABLES
    app,            \* which of the three scripts this process runs
    pc,             \* "start" before main() has loaded the file, "menu" in the loop,
                    \* "exit" after the exit command, "crashed" after an uncaught exception
    expense,        \* Expense_Tracker_CLI: the list `expense` of main()
    expense_file,   \* expenses.json
    habits,         \* Habit_Tracker: the list `habits` of main()
    habits_file,    \* habits.json
    tasks,          \* To-Do_List_Application: the list `tasks` of main()
    tasks_file,     \* tasks.json
    loaded_type,    \* the Python type of the object json.load gave main()
    today,          \* what date.today() returns now
    lastOp,         \* the last handler run: its name, argument, result, whether it saved
    maxIssued       \* history: the largest ID get_next_id has handed to an add (0: none yet)

vars == <<app, pc, expense, expense_file, habits, habits_file, tasks, tasks_file,
          loaded_type, today, lastOp, maxIssued>>

-----------------------------------------------------------------------------
(* Bounds of the model *)

MaxRecords == 2     \* longest list an add may extend
MaxId == 3          \* largest ID an add may assign
MaxTicks == 1       \* midnights that pass while the program runs
MaxLoaded == 2      \* longest list found in a pre-existing file
MaxTries == 2       \* answers one prompt loop reads before it accepts one

-----------------------------------------------------------------------------
(* Sequences *)

Range(s) == {s[i] : i \in 1..Len(s)}

\* s without its element at position i (1-based)
RemoveAt(s, i) == SubSeq(s, 1, i - 1) \o SubSeq(s, i + 1, Len(s))

\* all sequences over S of length at most n
SeqUpTo(S, n) == UNION {[1..k -> S] : k \in 0..n}

-----------------------------------------------------------------------------
(* datetime.date: the proleptic Gregorian calendar, as CPython computes it *)

IsLeap(y) == y % 4 = 0 /\ (y % 100 # 0 \/ y % 400 = 0)

DaysInMonth(y, m) ==
    IF m = 2 THEN (IF IsLeap(y) THEN 29 ELSE 28)
    ELSE IF m \in {4, 6, 9, 11} THEN 30 ELSE 31

\* days of the year y before the first day of month m
DaysBeforeMonth(y, m) ==
    <<0, 31, 59, 90, 120, 151, 181, 212, 243, 273, 304, 334>>[m]
        + (IF m > 2 /\ IsLeap(y) THEN 1 ELSE 0)

DaysBeforeYear(y) ==
    (y - 1) * 365 + (y - 1) \div 4 - (y - 1) \div 100 + (y - 1) \div 400

\* date.toordinal(): 0001-01-01 is day 1
ToOrdinal(d) == DaysBeforeYear(d.year) + DaysBeforeMonth(d.year, d.month) + d.day

\* date.fromordinal(): the 400/100/4/1-year cycle decomposition
FromOrdinal(ord) ==
    LET n0   == ord - 1
        n400 == n0 \div 146097
        r400 == n0 % 146097
        n100 == r400 \div 36524
        r100 == r400 % 36524
        n4   == r100 \div 1461
        r4   == r100 % 1461
        n1   == r4 \div 365
        r1   == r4 % 365
        y    == n400 * 400 + 1 + n100 * 100 + n4 * 4 + n1
    IN  IF n1 = 4 \/ n100 = 4
        THEN [year |-> y - 1, month |-> 12, day |-> 31]
        ELSE LET guess == (r1 + 50) \div 32
                 m == IF DaysBeforeMonth(y, guess) > r1 THEN guess - 1 ELSE guess
             IN  [year |-> y, month |-> m, day |-> r1 - DaysBeforeMonth(y, m) + 1]

\* date - timedelta(days=n)
DateMinusDays(d, n) == FromOrdinal(ToOrdinal(d) - n)

\* date.isoformat() and date.fromisoformat()
isoformat(d) == <<d.year, d.month, d.day>>
fromisoformat(s) == [year |-> s[1], month |-> s[2], day |-> s[3]]

\* the days on which the program may be started
StartDays == { [year |-> 2024, month |-> 2, day |-> 28] }

-----------------------------------------------------------------------------
(* json.dump / json.load *)

JInt(n) == <<"int", n>>
JFloat(x) == <<"float", x>>
JStr(s) == <<"str", s>>
JArr(items) == <<"arr", items>>

\* a plausible slip: the ID is written as text
EncodeExpense_id_as_text(e) ==
    [id |-> JStr(e.id), name |-> JStr(e.name), amount |-> JFloat(e.amount),
     category |-> JStr(e.category), created_on |-> JStr(e.created_on),
     notes |-> JArr(e.notes)]

EncodeExpense(e) ==
    [id |-> JInt(e.id), name |-> JStr(e.name), amount |-> JFloat(e.amount),
     category |-> JStr(e.category), created_on |-> JStr(e.created_on),
     notes |-> JArr(e.notes)]

DecodeExpense(j) ==
    [id |-> j.id[2], name |-> j.name[2], amount |-> j.amount[2],
     category |-> j.category[2], created_on |-> j.created_on[2],
     notes |-> j.notes[2]]

EncodeHabit(h) ==
    [id |-> JInt(h.id), name |-> JStr(h.name), created_on |-> JStr(h.created_on),
     completed_dates |->
         JArr([i \in 1..Len(h.completed_dates) |-> JStr(h.completed_dates[i])])]

DecodeHabit(j) ==
    [id |-> j.id[2], name |-> j.name[2], created_on |-> j.created_on[2],
     completed_dates |->
         [i \in 1..Len(j.completed_dates[2]) |-> j.completed_dates[2][i][2]]]

EncodeTask(t) == JStr(t)
DecodeTask(j) == j[2]

\* a file: absent, or holding the text of one JSON array
NoFile == [exists |-> FALSE, kind |-> "absent", text |-> <<>>]
FileOf(text) == [exists |-> TRUE, kind |-> "array", text |-> text]

\* files that hold something else: text json.load cannot decode, the text {}
\* and the text null
CorruptFile == [exists |-> TRUE, kind |-> "corrupt", text |-> <<>>]
ObjectFile == [exists |-> TRUE, kind |-> "object", text |-> <<>>]
NullFile == [exists |-> TRUE, kind |-> "null", text |-> <<>>]

\* json.load: raises JSONDecodeError, or returns the object the text denotes
Decodes(file) == file.kind # "corrupt"
TypeLoaded(file) ==
    CASE file.kind = "object" -> "dict"
      [] file.kind = "null"   -> "NoneType"
      [] OTHER                -> "list"

DumpExpenses(list) == [i \in 1..Len(list) |-> EncodeExpense(list[i])]
LoadExpenses(text) == [i \in 1..Len(text) |-> DecodeExpense(text[i])]
DumpHabits(list) == [i \in 1..Len(list) |-> EncodeHabit(list[i])]
LoadHabits(text) == [i \in 1..Len(text) |-> DecodeHabit(text[i])]
DumpTasks(list) == [i \in 1..Len(list) |-> EncodeTask(list[i])]
LoadTasks(text) == [i \in 1..Len(text) |-> DecodeTask(text[i])]

\* save_to_expense, save_habits, save_tasks: open "w" and dump the whole list
save_to_expense(tracked_expense) == FileOf(DumpExpenses(tracked_expense))
save_habits(tracked_habits) == FileOf(DumpHabits(tracked_habits))
save_tasks(list) == FileOf(DumpTasks(list))

-----------------------------------------------------------------------------
(* What the user types *)

Names == {"a"}

\* text typed at an ID or number prompt: int() accepts it or raises ValueError
NumberInputs ==
    {[isInt |-> TRUE, val |-> n] : n \in -1..MaxId}
        \cup {[isInt |-> FALSE, val |-> 0]}

\* a Python float: a number or NaN.  The numbers used are whole and small, so
\* binary64 holds them and their sums exactly.
Finite(n) == [nan |-> FALSE, val |-> n]
NaN == [nan |-> TRUE, val |-> 0]

\* x < y, x == y and x + y on floats: every comparison with NaN is False, every
\* sum with NaN is NaN
FLess(x, y) == ~x.nan /\ ~y.nan /\ x.val < y.val
FEq(x, y) == ~x.nan /\ ~y.nan /\ x.val = y.val
FAdd(x, y) == IF x.nan \/ y.nan THEN NaN ELSE Finite(x.val + y.val)

\* text typed at the amount prompt, and what float() makes of it
AmountInputs == {"5", "-1", "abc"}
\* text float() accepts that names no number
OddAmountInputs == {"nan"}
ParseFloat(raw) ==
    CASE raw = "5"   -> [ok |-> TRUE, val |-> Finite(5)]
      [] raw = "-1"  -> [ok |-> TRUE, val |-> Finite(-1)]
      [] raw = "nan" -> [ok |-> TRUE, val |-> NaN]
      [] OTHER       -> [ok |-> FALSE, val |-> Finite(0)]

\* text typed at the category prompt, and what .strip().title() makes of it
CategoryInputs == {"food", "Housing", "misc"}
Title(raw) ==
    CASE raw = "food"    -> "Food"
      [] raw = "Housing" -> "Housing"
      [] OTHER           -> "Misc"

CATEGORIES == <<"Housing", "Food", "Transportation", "Utilities", "Healthcare",
                "Savings", "Debt", "Shopping", "Entertainment">>

\* the answers a prompt loop consumes: it re-asks after every rejected answer
\* and stops at the first accepted one
PromptAnswers(Inputs, Accepted) ==
    {t \in SeqUpTo(Inputs, MaxTries) :
        /\ t # <<>>
        /\ t[Len(t)] \in Accepted
        /\ \A i \in 1..(Len(t) - 1) : t[i] \notin Accepted}

AmountAccepted(raw) == ParseFloat(raw).ok /\ ~FLess(ParseFloat(raw).val, Finite(0))

\* a plausible slip: the category typed is taken as it is
CategoryAccepted_any(raw) == TRUE

CategoryAccepted(raw) == Title(raw) \in Range(CATEGORIES)

AmountAnswers ==
    PromptAnswers(AmountInputs, {raw \in AmountInputs : AmountAccepted(raw)})
AnyAmountAnswers ==
    PromptAnswers(AmountInputs \cup OddAmountInputs,
                  {raw \in AmountInputs \cup OddAmountInputs : AmountAccepted(raw)})
CategoryAnswers ==
    PromptAnswers(CategoryInputs, {raw \in CategoryInputs : CategoryAccepted(raw)})

\* the result of one handler, kept for inspection
Op(name, arg, ret, val, saved) ==
    [op |-> name, arg |-> arg, ret |-> ret, val |-> val, saved |-> saved]

-----------------------------------------------------------------------------
(* Expense_Tracker_CLI: core functions *)

RECURSIVE MaxOf(_)
\* max(r['id'] for r in records), records not empty
MaxOf(records) ==
    IF Len(records) = 1 THEN records[1].id
    ELSE LET m == MaxOf(Tail(records))
         IN  IF records[1].id >= m THEN records[1].id ELSE m

\* a plausible slip: number the records by their count
get_next_id_count(records) == Len(records) + 1

\* a plausible slip: one more than the ID of the last record, not of the largest
get_next_id_last(records) ==
    IF records = <<>> THEN 1 ELSE records[Len(records)].id + 1

\* a plausible slip: IDs come from a counter that outlives the records
get_next_id_counter(records) == maxIssued + 1

get_next_id(records) ==
    IF records = <<>> THEN 1 ELSE MaxOf(records) + 1

\* the first position (1-based) of the positions hits; 0 if there is none
FirstOf(hits) ==
    IF hits = {} THEN 0 ELSE CHOOSE i \in hits : \A j \in hits : i <= j

\* for r in records: if r['id'] == id: the position the loop stops at
FirstWithId(records, id) ==
    FirstOf({i \in 1..Len(records) : records[i].id = id})

\* list.remove(x): drops the first element equal to x
ListRemove(s, x) ==
    RemoveAt(s, FirstOf({i \in 1..Len(s) : s[i] = x}))

\* what a core function leaves behind: the list, the file, and what it returned
Outcome(list, file, ret, val, saved) ==
    [list |-> list, file |-> file, ret |-> ret, val |-> val, saved |-> saved]

new_expense(tracked_expense, name, amount, category, day) ==
    [id |-> get_next_id(tracked_expense), name |-> name, amount |-> amount,
     category |-> category, created_on |-> isoformat(day), notes |-> <<>>]

\* add_expense, after its prompts have produced name, amount and category
add_expense(tracked_expense, file, name, amount, category, day) ==
    LET list == Append(tracked_expense,
                       new_expense(tracked_expense, name, amount, category, day))
    IN  Outcome(list, save_to_expense(list), "None", <<>>, TRUE)

\* a plausible slip: the deletion is not persisted
delete_expense_unsaved(tracked_expense, file, expense_id) ==
    LET i == FirstWithId(tracked_expense, expense_id)
    IN  IF i = 0
        THEN Outcome(tracked_expense, file, "None", <<>>, FALSE)
        ELSE Outcome(ListRemove(tracked_expense, tracked_expense[i]), file,
                     "record", <<tracked_expense[i]>>, FALSE)

\* a plausible slip: the save sits after the loop and runs on every path
delete_expense_save_always(tracked_expense, file, expense_id) ==
    LET i == FirstWithId(tracked_expense, expense_id)
    IN  IF i = 0
        THEN Outcome(tracked_expense, save_to_expense(tracked_expense), "None",
                     <<>>, TRUE)
        ELSE LET list == ListRemove(tracked_expense, tracked_expense[i])
             IN  Outcome(list, save_to_expense(list), "record",
                         <<tracked_expense[i]>>, TRUE)

delete_expense(tracked_expense, file, expense_id) ==
    LET i == FirstWithId(tracked_expense, expense_id)
    IN  IF i = 0
        THEN Outcome(tracked_expense, file, "None", <<>>, FALSE)
        ELSE LET list == ListRemove(tracked_expense, tracked_expense[i])
             IN  Outcome(list, save_to_expense(list), "record",
                         <<tracked_expense[i]>>, TRUE)

clear_all_expense(tracked_expense, file) ==
    Outcome(<<>>, save_to_expense(<<>>), "None", <<>>, TRUE)

\* view_expense: val holds what each printed line shows
view_expense(tracked_expense, file) ==
    Outcome(tracked_expense, file, "None",
            [i \in 1..Len(tracked_expense) |->
                <<tracked_expense[i].id, tracked_expense[i].name,
                  tracked_expense[i].amount>>],
            FALSE)

\* {category: 0.0 for category in CATEGORIES}, total_spent = 0.0
ReportStart ==
    [category_totals |-> [category \in Range(CATEGORIES) |-> Finite(0)],
     total_spent |-> Finite(0), raised |-> FALSE]

RECURSIVE ReportLoop(_, _, _, _)
\* a plausible slip: the month is compared, the year is not
ReportLoop_month_only(tracked_expense, i, day, acc) ==
    IF i > Len(tracked_expense) \/ acc.raised THEN acc
    ELSE LET expense_date == fromisoformat(tracked_expense[i].created_on)
             category == tracked_expense[i].category
             amount == tracked_expense[i].amount
         IN  IF expense_date.month = day.month
             THEN IF category \in DOMAIN acc.category_totals
                  THEN ReportLoop(tracked_expense, i + 1, day,
                           [acc EXCEPT !.category_totals[category] = FAdd(@, amount),
                                       !.total_spent = FAdd(@, amount)])
                  ELSE [acc EXCEPT !.raised = TRUE]
             ELSE ReportLoop(tracked_expense, i + 1, day, acc)

\* the for loop of view_monthly_report from the i-th expense on;
\* category_totals[category] raises KeyError for a key the dict does not have
ReportLoop(tracked_expense, i, day, acc) ==
    IF i > Len(tracked_expense) \/ acc.raised THEN acc
    ELSE LET expense_date == fromisoformat(tracked_expense[i].created_on)
             category == tracked_expense[i].category
             amount == tracked_expense[i].amount
         IN  IF expense_date.month = day.month /\ expense_date.year = day.year
             THEN IF category \in DOMAIN acc.category_totals
                  THEN ReportLoop(tracked_expense, i + 1, day,
                           [acc EXCEPT !.category_totals[category] = FAdd(@, amount),
                                       !.total_spent = FAdd(@, amount)])
                  ELSE [acc EXCEPT !.raised = TRUE]
             ELSE ReportLoop(tracked_expense, i + 1, day, acc)

\* a plausible slip: the dict of totals is filled as categories are met, so a
\* line is printed for each category in the order of its first expense of the
\* month and none for a category without one
view_monthly_report_as_filled(tracked_expense, file, day) ==
    IF tracked_expense = <<>>
    THEN Outcome(tracked_expense, file, "empty", <<>>, FALSE)
    ELSE LET acc == ReportLoop(tracked_expense, 1, day, ReportStart)
             met == SelectSeq(tracked_expense,
                        LAMBDA e : /\ fromisoformat(e.created_on).month = day.month
                                   /\ fromisoformat(e.created_on).year = day.year)
             firsts == SelectSeq([i \in 1..Len(met) |-> i],
                           LAMBDA i : \A j \in 1..(i - 1) :
                                          met[j].category # met[i].category)
         IN  IF acc.raised
             THEN Outcome(tracked_expense, file, "KeyError", <<>>, FALSE)
             ELSE Outcome(tracked_expense, file, "None",
                          [total_spent |-> acc.total_spent,
                           lines |-> [k \in 1..Len(firsts) |->
                                         [category |-> met[firsts[k]].category,
                                          total |-> acc.category_totals[
                                                        met[firsts[k]].category]]]],
                          FALSE)

\* view_monthly_report: val holds the total printed first and then the line
\* printed for each category, in the order of printing
view_monthly_report(tracked_expense, file, day) ==
    IF tracked_expense = <<>>
    THEN Outcome(tracked_expense, file, "empty", <<>>, FALSE)
    ELSE LET acc == ReportLoop(tracked_expense, 1, day, ReportStart)
         IN  IF acc.raised
             THEN Outcome(tracked_expense, file, "KeyError", <<>>, FALSE)
             ELSE Outcome(tracked_expense, file, "None",
                          [total_spent |-> acc.total_spent,
                           lines |-> [i \in 1..Len(CATEGORIES) |->
                                         [category |-> CATEGORIES[i],
                                          total |-> acc.category_totals[CATEGORIES[i]]]]],
                          FALSE)

-----------------------------------------------------------------------------
(* Habit_Tracker: core functions *)

new_habit(tracked_habit, name, day) ==
    [id |-> get_next_id(tracked_habit), name |-> name,
     created_on |-> isoformat(day), completed_dates |-> <<>>]

\* a plausible slip: the new habit is put first, insert(0, ...) for append(...)
add_habit_front(tracked_habit, file, name, day) ==
    LET list == <<new_habit(tracked_habit, name, day)>> \o tracked_habit
    IN  Outcome(list, save_habits(list), "None", <<>>, TRUE)

add_habit(tracked_habit, file, name, day) ==
    LET list == Append(tracked_habit, new_habit(tracked_habit, name, day))
    IN  Outcome(list, save_habits(list), "None", <<>>, TRUE)

\* a plausible slip: every habit with the ID is dropped, not only the first
delete_habit_all(tracked_habits, file, habit_id) ==
    LET i == FirstWithId(tracked_habits, habit_id)
    IN  IF i = 0
        THEN Outcome(tracked_habits, file, "None", <<>>, FALSE)
        ELSE LET list == SelectSeq(tracked_habits, LAMBDA h : h.id # habit_id)
             IN  Outcome(list, save_habits(list), "record",
                         <<tracked_habits[i]>>, TRUE)

delete_habit(tracked_habits, file, habit_id) ==
    LET i == FirstWithId(tracked_habits, habit_id)
    IN  IF i = 0
        THEN Outcome(tracked_habits, file, "None", <<>>, FALSE)
        ELSE LET list == ListRemove(tracked_habits, tracked_habits[i])
             IN  Outcome(list, save_habits(list), "record",
                         <<tracked_habits[i]>>, TRUE)

\* a plausible slip: nothing is written when there is nothing to clear
clear_habits_skip_empty(tracked_habits, file) ==
    IF tracked_habits = <<>>
    THEN Outcome(tracked_habits, file, "None", <<>>, FALSE)
    ELSE Outcome(<<>>, save_habits(<<>>), "None", <<>>, TRUE)

clear_habits(tracked_habits, file) ==
    Outcome(<<>>, save_habits(<<>>), "None", <<>>, TRUE)

\* a plausible slip: the loop goes on after the first habit with the ID
mark_complete_every_match(tracked_habits, file, habit_id, day) ==
    LET i         == FirstWithId(tracked_habits, habit_id)
        today_str == isoformat(day)
        list      == [k \in 1..Len(tracked_habits) |->
                         IF /\ tracked_habits[k].id = habit_id
                            /\ today_str \notin Range(tracked_habits[k].completed_dates)
                         THEN [tracked_habits[k] EXCEPT !.completed_dates =
                                   Append(@, today_str)]
                         ELSE tracked_habits[k]]
    IN  IF i = 0
        THEN Outcome(tracked_habits, file, "None", <<>>, FALSE)
        ELSE IF list # tracked_habits
        THEN Outcome(list, save_habits(list), "True", <<>>, TRUE)
        ELSE Outcome(tracked_habits, file, "False", <<>>, FALSE)

\* a plausible slip: marking also stamps the habit with today's date
mark_complete_restamps(tracked_habits, file, habit_id, day) ==
    LET i         == FirstWithId(tracked_habits, habit_id)
        today_str == isoformat(day)
    IN  IF i = 0
        THEN Outcome(tracked_habits, file, "None", <<>>, FALSE)
        ELSE IF today_str \notin Range(tracked_habits[i].completed_dates)
        THEN LET list == [tracked_habits EXCEPT ![i].completed_dates =
                              Append(@, today_str),
                                                ![i].created_on = today_str]
             IN  Outcome(list, save_habits(list), "True", <<>>, TRUE)
        ELSE Outcome(tracked_habits, file, "False", <<>>, FALSE)

\* a plausible slip: the membership test is left out
mark_complete_unchecked(tracked_habits, file, habit_id, day) ==
    LET i == FirstWithId(tracked_habits, habit_id)
    IN  IF i = 0
        THEN Outcome(tracked_habits, file, "None", <<>>, FALSE)
        ELSE LET list == [tracked_habits EXCEPT ![i].completed_dates =
                              Append(@, isoformat(day))]
             IN  Outcome(list, save_habits(list), "True", <<>>, TRUE)

\* a plausible slip: a day already recorded is reported as newly recorded
mark_complete_always_true(tracked_habits, file, habit_id, day) ==
    LET i         == FirstWithId(tracked_habits, habit_id)
        today_str == isoformat(day)
    IN  IF i = 0
        THEN Outcome(tracked_habits, file, "None", <<>>, FALSE)
        ELSE IF today_str \notin Range(tracked_habits[i].completed_dates)
        THEN LET list == [tracked_habits EXCEPT ![i].completed_dates =
                              Append(@, today_str)]
             IN  Outcome(list, save_habits(list), "True", <<>>, TRUE)
        ELSE Outcome(tracked_habits, file, "True", <<>>, FALSE)

mark_complete(tracked_habits, file, habit_id, day) ==
    LET i         == FirstWithId(tracked_habits, habit_id)
        today_str == isoformat(day)
    IN  IF i = 0
        THEN Outcome(tracked_habits, file, "None", <<>>, FALSE)
        ELSE IF today_str \notin Range(tracked_habits[i].completed_dates)
        THEN LET list == [tracked_habits EXCEPT ![i].completed_dates =
                              Append(@, today_str)]
             IN  Outcome(list, save_habits(list), "True", <<>>, TRUE)
        ELSE Outcome(tracked_habits, file, "False", <<>>, FALSE)

RECURSIVE StreakWalk(_, _)
\* the while loop of get_streak: count days back from current_day while they
\* are in completed_set
StreakWalk(completed_set, current_day) ==
    IF current_day \in completed_set
    THEN 1 + StreakWalk(completed_set, DateMinusDays(current_day, 1))
    ELSE 0

\* a plausible slip: a do-while loop, today is counted before it is looked up
get_streak_do_while(habit, day) ==
    LET completed_set == {fromisoformat(d) : d \in Range(habit.completed_dates)}
    IN  1 + StreakWalk(completed_set, DateMinusDays(day, 1))

\* a plausible slip: a day of grace, the walk starts yesterday when today is missing
get_streak_grace(habit, day) ==
    LET completed_set == {fromisoformat(d) : d \in Range(habit.completed_dates)}
    IN  IF day \in completed_set
        THEN StreakWalk(completed_set, day)
        ELSE StreakWalk(completed_set, DateMinusDays(day, 1))

get_streak(habit, day) ==
    LET completed_set == {fromisoformat(d) : d \in Range(habit.completed_dates)}
    IN  StreakWalk(completed_set, day)

\* view_habits: val holds the streak printed for each habit
view_habits(tracked_habits, file, day) ==
    Outcome(tracked_habits, file, "None",
            [i \in 1..Len(tracked_habits) |-> get_streak(tracked_habits[i], day)],
            FALSE)

-----------------------------------------------------------------------------
(* To-Do_List_Application: core functions *)

\* text typed at the task prompt, and what .strip() makes of it
TaskInputs == {"", "  ", "a", " b "}
Strip(raw) ==
    CASE raw = "a"   -> "a"
      [] raw = " b " -> "b"
      [] OTHER       -> ""

\* a plausible slip: the text is tested before it is stripped
add_task_tested_unstripped(list, file, raw) ==
    LET new_task == Strip(raw)
    IN  IF raw = ""
        THEN Outcome(list, file, "None", <<>>, FALSE)
        ELSE LET l2 == Append(list, new_task)
             IN  Outcome(l2, save_tasks(l2), "None", <<>>, TRUE)

add_task(list, file, raw) ==
    LET new_task == Strip(raw)
    IN  IF new_task = ""
        THEN Outcome(list, file, "None", <<>>, FALSE)
        ELSE LET l2 == Append(list, new_task)
             IN  Outcome(l2, save_tasks(l2), "None", <<>>, TRUE)

\* a plausible slip: the position is taken 1-based
remove_task_off_by_one(list, file, index) ==
    IF 1 <= index /\ index <= Len(list)
    THEN LET l2 == RemoveAt(list, index)
         IN  Outcome(l2, save_tasks(l2), "record", <<list[index]>>, TRUE)
    ELSE Outcome(list, file, "IndexError", <<>>, FALSE)

\* remove_task: list.pop(index) counts a negative index from the end and
\* raises IndexError outside [-len, len); the save is not reached then
remove_task(list, file, index) ==
    IF -Len(list) <= index /\ index < Len(list)
    THEN LET pos == IF index < 0 THEN index + Len(list) + 1 ELSE index + 1
             l2  == RemoveAt(list, pos)
         IN  Outcome(l2, save_tasks(l2), "record", <<list[pos]>>, TRUE)
    ELSE Outcome(list, file, "IndexError", <<>>, FALSE)

clear_list(list, file) ==
    Outcome(<<>>, save_tasks(<<>>), "None", <<>>, TRUE)

\* a plausible slip: the tasks are popped off the list as they are printed
view_tasks_popping(list, file) ==
    Outcome(<<>>, file, "None", [i \in 1..Len(list) |-> <<i, list[i]>>], FALSE)

\* view_tasks: val holds the number and the task of each printed line
view_tasks(list, file) ==
    Outcome(list, file, "None", [i \in 1..Len(list) |-> <<i, list[i]>>], FALSE)

-----------------------------------------------------------------------------
(* The processes *)

Apps == {"expense", "habit", "todo"}

NoOp == Op("none", 0, "None", <<>>, FALSE)

\* the files a first run can find: none, or one holding the empty list
FreshFiles == {NoFile, FileOf(<<>>)}

InitWith(ExpenseFiles, HabitFiles, TaskFiles) ==
    /\ app \in Apps
    /\ pc = "start"
    /\ expense = <<>>
    /\ habits = <<>>
    /\ tasks = <<>>
    /\ expense_file \in (IF app = "expense" THEN ExpenseFiles ELSE {NoFile})
    /\ habits_file \in (IF app = "habit" THEN HabitFiles ELSE {NoFile})
    /\ tasks_file \in (IF app = "todo" THEN TaskFiles ELSE {NoFile})
    /\ loaded_type = "list"
    /\ today \in StartDays
    /\ lastOp = NoOp
    /\ maxIssued = 0

Init == InitWith(FreshFiles, FreshFiles, FreshFiles)

\* the clock passes midnight
Tick ==
    /\ pc = "menu"
    /\ \E s \in StartDays :
           /\ ToOrdinal(s) <= ToOrdinal(today)
           /\ ToOrdinal(today) < ToOrdinal(s) + MaxTicks
    /\ today' = FromOrdinal(ToOrdinal(today) + 1)
    /\ lastOp' = Op("tick", 0, "None", <<>>, FALSE)
    /\ UNCHANGED <<app, pc, expense, expense_file, habits, habits_file, tasks,
                   tasks_file, loaded_type, maxIssued>>

\* the "exit" command of any of the three menus: the process ends, its lists
\* are gone, the files stay
Exit ==
    /\ pc = "menu"
    /\ pc' = "exit"
    /\ expense' = <<>>
    /\ habits' = <<>>
    /\ tasks' = <<>>
    /\ loaded_type' = "list"
    /\ lastOp' = Op("exit", 0, "None", <<>>, FALSE)
    /\ maxIssued' = 0
    /\ UNCHANGED <<app, expense_file, habits_file, tasks_file, today>>

-----------------------------------------------------------------------------
(* Expense_Tracker_CLI: main() *)

ExpenseRuns == app = "expense" /\ pc = "menu" /\ loaded_type = "list"

ExpenseFrame ==
    UNCHANGED <<app, habits, habits_file, tasks, tasks_file, loaded_type, today>>

\* a plausible slip: the file is opened "w" whether it exists or not
ExpenseStartup_always_create ==
    /\ app = "expense" /\ pc = "start"
    /\ expense_file' = FileOf(DumpExpenses(<<>>))
    /\ expense' = <<>>
    /\ loaded_type' = "list"
    /\ pc' = "menu"
    /\ lastOp' = Op("startup", 0, "None", <<>>, TRUE)
    /\ UNCHANGED <<app, habits, habits_file, tasks, tasks_file, today, maxIssued>>

ExpenseStartup ==
    /\ app = "expense" /\ pc = "start"
    /\ LET file == IF expense_file.exists THEN expense_file
                   ELSE FileOf(DumpExpenses(<<>>))
       IN  /\ expense_file' = file
           /\ IF Decodes(file)
              THEN /\ expense' = LoadExpenses(file.text)
                   /\ loaded_type' = TypeLoaded(file)
                   /\ pc' = "menu"
                   /\ lastOp' = Op("startup", 0, "None", <<>>, ~expense_file.exists)
              ELSE /\ pc' = "crashed"
                   /\ lastOp' = Op("startup", 0, "JSONDecodeError", <<>>, FALSE)
                   /\ UNCHANGED <<expense, loaded_type>>
    /\ UNCHANGED <<app, habits, habits_file, tasks, tasks_file, today, maxIssued>>

ExpenseAdd(name, amounts, categories) ==
    /\ ExpenseRuns
    /\ Len(expense) < MaxRecords
    /\ get_next_id(expense) <= MaxId
    /\ LET amount == ParseFloat(amounts[Len(amounts)]).val
           category == Title(categories[Len(categories)])
       IN  \E o \in {add_expense(expense, expense_file, name, amount, category, today)} :
           \E id \in {o.list[Len(o.list)].id} :
               /\ expense' = o.list
               /\ expense_file' = o.file
               /\ lastOp' = Op("add", id, o.ret, categories, o.saved)
               /\ maxIssued' = (IF id > maxIssued THEN id ELSE maxIssued)
    /\ ExpenseFrame
    /\ UNCHANGED pc

ExpenseDelete(choice) ==
    /\ ExpenseRuns
    /\ IF expense = <<>>
       THEN /\ lastOp' = Op("delete", 0, "empty", <<>>, FALSE)
            /\ UNCHANGED <<expense, expense_file>>
       ELSE \E v \in {view_expense(expense, expense_file)} :
                IF ~choice.isInt
                THEN /\ expense' = v.list
                     /\ expense_file' = v.file
                     /\ lastOp' = Op("delete", 0, "ValueError", <<>>, v.saved)
                ELSE \E o \in {delete_expense(v.list, v.file, choice.val)} :
                         /\ expense' = o.list
                         /\ expense_file' = o.file
                         /\ lastOp' = Op("delete", choice.val, o.ret, o.val,
                                         v.saved \/ o.saved)
    /\ ExpenseFrame
    /\ UNCHANGED <<pc, maxIssued>>

ExpenseClear ==
    /\ ExpenseRuns
    /\ \E o \in {clear_all_expense(expense, expense_file)} :
           /\ expense' = o.list
           /\ expense_file' = o.file
           /\ lastOp' = Op("clear", Len(expense), o.ret, o.val, o.saved)
    /\ ExpenseFrame
    /\ UNCHANGED <<pc, maxIssued>>

\* the "report" command; an exception view_monthly_report raises is not caught
ExpenseReport ==
    /\ ExpenseRuns
    /\ \E o \in {view_monthly_report(expense, expense_file, today)} :
           /\ expense' = o.list
           /\ expense_file' = o.file
           /\ lastOp' = Op("report", 0, o.ret, o.val, o.saved)
           /\ pc' = (IF o.ret = "KeyError" THEN "crashed" ELSE pc)
    /\ ExpenseFrame
    /\ UNCHANGED maxIssued

ExpenseNext ==
    \/ ExpenseStartup
    \/ \E name \in Names :
       \E amounts \in AmountAnswers :
       \E categories \in CategoryAnswers :
           ExpenseAdd(name, amounts, categories)
    \/ \E choice \in NumberInputs : ExpenseDelete(choice)
    \/ ExpenseClear
    \/ ExpenseReport

-----------------------------------------------------------------------------
(* Habit_Tracker: main() *)

HabitRuns == app = "habit" /\ pc = "menu" /\ loaded_type = "list"

HabitFrame ==
    UNCHANGED <<app, pc, expense, expense_file, tasks, tasks_file, loaded_type, today>>

\* the answers to a Y/N confirmation, after .strip().lower()
Confirmations == {"y", "n"}

HabitStartup ==
    /\ app = "habit" /\ pc = "start"
    /\ LET file == IF habits_file.exists THEN habits_file
                   ELSE FileOf(DumpHabits(<<>>))
       IN  /\ habits_file' = file
           /\ IF Decodes(file)
              THEN /\ habits' = LoadHabits(file.text)
                   /\ loaded_type' = TypeLoaded(file)
                   /\ pc' = "menu"
                   /\ lastOp' = Op("startup", 0, "None", <<>>, ~habits_file.exists)
              ELSE /\ pc' = "crashed"
                   /\ lastOp' = Op("startup", 0, "JSONDecodeError", <<>>, FALSE)
                   /\ UNCHANGED <<habits, loaded_type>>
    /\ UNCHANGED <<app, expense, expense_file, tasks, tasks_file, today, maxIssued>>

HabitAdd(name) ==
    /\ HabitRuns
    /\ Len(habits) < MaxRecords
    /\ get_next_id(habits) <= MaxId
    /\ \E o \in {add_habit(habits, habits_file, name, today)} :
       \E id \in {o.list[Len(o.list)].id} :
           /\ habits' = o.list
           /\ habits_file' = o.file
           /\ lastOp' = Op("add", id, o.ret, o.val, o.saved)
           /\ maxIssued' = (IF id > maxIssued THEN id ELSE maxIssued)
    /\ HabitFrame

\* the "delete" and "mark" commands show the habits with view_habits before
\* they prompt; what view_habits does is HabitView
HabitDelete(choice) ==
    /\ HabitRuns
    /\ IF habits = <<>>
       THEN /\ lastOp' = Op("delete", 0, "empty", <<>>, FALSE)
            /\ UNCHANGED <<habits, habits_file>>
       ELSE IF ~choice.isInt
       THEN /\ lastOp' = Op("delete", 0, "ValueError", <<>>, FALSE)
            /\ UNCHANGED <<habits, habits_file>>
       ELSE \E o \in {delete_habit(habits, habits_file, choice.val)} :
                /\ habits' = o.list
                /\ habits_file' = o.file
                /\ lastOp' = Op("delete", choice.val, o.ret, o.val, o.saved)
    /\ HabitFrame
    /\ UNCHANGED <<maxIssued>>

HabitClear(confirm) ==
    /\ HabitRuns
    /\ IF confirm = "y"
       THEN \E o \in {clear_habits(habits, habits_file)} :
                /\ habits' = o.list
                /\ habits_file' = o.file
                /\ lastOp' = Op("clear", Len(habits), o.ret, o.val, o.saved)
       ELSE /\ lastOp' = Op("clear", 0, "declined", <<>>, FALSE)
            /\ UNCHANGED <<habits, habits_file>>
    /\ HabitFrame
    /\ UNCHANGED <<maxIssued>>

HabitMark(choice) ==
    /\ HabitRuns
    /\ IF habits = <<>>
       THEN /\ lastOp' = Op("mark", 0, "empty", <<>>, FALSE)
            /\ UNCHANGED <<habits, habits_file>>
       ELSE IF ~choice.isInt
       THEN /\ lastOp' = Op("mark", 0, "ValueError", <<>>, FALSE)
            /\ UNCHANGED <<habits, habits_file>>
       ELSE \E o \in {mark_complete(habits, habits_file, choice.val, today)} :
                /\ habits' = o.list
                /\ habits_file' = o.file
                /\ lastOp' = Op("mark", choice.val, o.ret, o.val, o.saved)
    /\ HabitFrame
    /\ UNCHANGED <<maxIssued>>

\* the "view" command: view_habits prints every habit with its streak
HabitView ==
    /\ HabitRuns
    /\ \E o \in {view_habits(habits, habits_file, today)} :
           /\ habits' = o.list
           /\ habits_file' = o.file
           /\ lastOp' = Op("view", 0, o.ret, o.val, o.saved)
    /\ HabitFrame
    /\ UNCHANGED maxIssued

HabitNext ==
    \/ HabitStartup
    \/ HabitView
    \/ \E name \in Names : HabitAdd(name)
    \/ \E choice \in NumberInputs : HabitDelete(choice)
    \/ \E confirm \in Confirmations : HabitClear(confirm)
    \/ \E choice \in NumberInputs : HabitMark(choice)

-----------------------------------------------------------------------------
(* To-Do_List_Application: main() *)

TodoRuns == app = "todo" /\ pc = "menu" /\ loaded_type = "list"

TodoFrame ==
    UNCHANGED <<app, pc, expense, expense_file, habits, habits_file, loaded_type,
                today, maxIssued>>

TodoStartup ==
    /\ app = "todo" /\ pc = "start"
    /\ LET file == IF tasks_file.exists THEN tasks_file
                   ELSE FileOf(DumpTasks(<<>>))
       IN  /\ tasks_file' = file
           /\ IF Decodes(file)
              THEN /\ tasks' = LoadTasks(file.text)
                   /\ loaded_type' = TypeLoaded(file)
                   /\ pc' = "menu"
                   /\ lastOp' = Op("startup", 0, "None", <<>>, ~tasks_file.exists)
              ELSE /\ pc' = "crashed"
                   /\ lastOp' = Op("startup", 0, "JSONDecodeError", <<>>, FALSE)
                   /\ UNCHANGED <<tasks, loaded_type>>
    /\ UNCHANGED <<app, expense, expense_file, habits, habits_file, today,
                   maxIssued>>

TodoAdd(raw) ==
    /\ TodoRuns
    /\ Len(tasks) < MaxRecords
    /\ \E o \in {add_task(tasks, tasks_file, raw)} :
           /\ tasks' = o.list
           /\ tasks_file' = o.file
           /\ lastOp' = Op("add", 0, o.ret, o.val, o.saved)
    /\ TodoFrame

\* the "remove" branch of main(): the number typed is 1-based and is checked
\* against the list before remove_task is called
TodoRemove(choice) ==
    /\ TodoRuns
    /\ IF tasks = <<>>
       THEN /\ lastOp' = Op("remove", 0, "empty", <<>>, FALSE)
            /\ UNCHANGED <<tasks, tasks_file>>
       ELSE LET v == view_tasks(tasks, tasks_file)
                index == choice.val - 1
            IN  IF ~choice.isInt
                THEN /\ tasks' = v.list
                     /\ tasks_file' = v.file
                     /\ lastOp' = Op("remove", 0, "ValueError", <<>>, v.saved)
                ELSE IF 0 <= index /\ index < Len(v.list)
                THEN \E o \in {remove_task(v.list, v.file, index)} :
                         /\ tasks' = o.list
                         /\ tasks_file' = o.file
                         /\ lastOp' = Op("remove", index, o.ret, o.val,
                                         v.saved \/ o.saved)
                ELSE /\ tasks' = v.list
                     /\ tasks_file' = v.file
                     /\ lastOp' = Op("remove", index, "invalid", <<>>, v.saved)
    /\ TodoFrame

TodoClear(confirm) ==
    /\ TodoRuns
    /\ IF confirm = "y"
       THEN \E o \in {clear_list(tasks, tasks_file)} :
                /\ tasks' = o.list
                /\ tasks_file' = o.file
                /\ lastOp' = Op("clear", Len(tasks), o.ret, o.val, o.saved)
       ELSE /\ lastOp' = Op("clear", 0, "declined", <<>>, FALSE)
            /\ UNCHANGED <<tasks, tasks_file>>
    /\ TodoFrame

\* the "view" command
TodoView ==
    /\ TodoRuns
    /\ \E o \in {view_tasks(tasks, tasks_file)} :
           /\ tasks' = o.list
           /\ tasks_file' = o.file
           /\ lastOp' = Op("view", 0, o.ret, o.val, o.saved)
    /\ TodoFrame

TodoNext ==
    \/ TodoStartup
    \/ \E raw \in TaskInputs : TodoAdd(raw)
    \/ \E choice \in NumberInputs : TodoRemove(choice)
    \/ \E confirm \in Confirmations : TodoClear(confirm)
    \/ TodoView

-----------------------------------------------------------------------------
(* main() of any of the three tools when json.load gave it {} or None: the  *)
(* object is falsy, len() of it is 0 or an error, and it is no list         *)

NonListRuns == pc = "menu" /\ loaded_type # "list"

NonListFrame ==
    UNCHANGED <<app, expense, habits, tasks, loaded_type, today, maxIssued>>

\* the commands of each menu that begin with `if not <collection>`: they print
\* that nothing is stored and return
EmptyTesting ==
    CASE app = "expense" -> {"delete", "report"}
      [] app = "habit"   -> {"delete", "view", "mark"}
      [] OTHER           -> {"remove", "view"}

NonListFoundEmpty(command) ==
    /\ NonListRuns
    /\ command \in EmptyTesting
    /\ lastOp' = Op(command, 0, "empty", <<>>, FALSE)
    /\ UNCHANGED <<pc, expense_file, habits_file, tasks_file>>
    /\ NonListFrame

\* "add": the to-do tool returns on an empty task; otherwise .append is looked
\* up on the dict or on None and the AttributeError ends the program
NonListAdd(raw) ==
    /\ NonListRuns
    /\ IF app = "todo" /\ Strip(raw) = ""
       THEN /\ lastOp' = Op("add", 0, "None", <<>>, FALSE)
            /\ pc' = pc
       ELSE /\ lastOp' = Op("add", 0, "AttributeError", <<>>, FALSE)
            /\ pc' = "crashed"
    /\ UNCHANGED <<expense_file, habits_file, tasks_file>>
    /\ NonListFrame

\* "clear": the expense tracker clears at once, the other two ask first;
\* dict.clear() works and the save writes {} again, None.clear ends the program
NonListClear(confirm) ==
    /\ NonListRuns
    /\ IF app # "expense" /\ confirm # "y"
       THEN /\ lastOp' = Op("clear", 0, "declined", <<>>, FALSE)
            /\ UNCHANGED <<pc, expense_file, habits_file, tasks_file>>
       ELSE IF loaded_type = "dict"
       THEN /\ expense_file' = (IF app = "expense" THEN ObjectFile ELSE expense_file)
            /\ habits_file' = (IF app = "habit" THEN ObjectFile ELSE habits_file)
            /\ tasks_file' = (IF app = "todo" THEN ObjectFile ELSE tasks_file)
            /\ lastOp' = Op("clear", 0, "None", <<>>, TRUE)
            /\ pc' = pc
       ELSE /\ lastOp' = Op("clear", 0, "AttributeError", <<>>, FALSE)
            /\ pc' = "crashed"
            /\ UNCHANGED <<expense_file, habits_file, tasks_file>>
    /\ NonListFrame

NonListNext ==
    \/ \E command \in {"delete", "report", "view", "mark", "remove"} :
           NonListFoundEmpty(command)
    \/ \E raw \in TaskInputs : NonListAdd(raw)
    \/ \E confirm \in Confirmations : NonListClear(confirm)

-----------------------------------------------------------------------------
(* Specifications *)

Next == ExpenseNext \/ HabitNext \/ TodoNext \/ Tick \/ Exit

\* every tool started on a fresh directory
Spec == Init /\ [][Next]_vars


\* a user who only adds and deletes by ID, in the two trackers that assign IDs
NextAddDelete ==
    \/ ExpenseStartup
    \/ \E name \in Names :
       \E amounts \in AmountAnswers :
       \E categories \in CategoryAnswers :
           ExpenseAdd(name, amounts, categories)
    \/ \E choice \in NumberInputs : ExpenseDelete(choice)
    \/ HabitStartup
    \/ \E name \in Names : HabitAdd(name)
    \/ \E choice \in NumberInputs : HabitDelete(choice)
    \/ Tick

SpecAddDelete == Init /\ [][NextAddDelete]_vars

\* a user who only adds and clears, in the two trackers that assign IDs
NextAddClear ==
    \/ ExpenseStartup
    \/ \E name \in Names :
       \E amounts \in AmountAnswers :
       \E categories \in CategoryAnswers :
           ExpenseAdd(name, amounts, categories)
    \/ ExpenseClear
    \/ HabitStartup
    \/ \E name \in Names : HabitAdd(name)
    \/ \E confirm \in Confirmations : HabitClear(confirm)
    \/ Tick

SpecAddClear == Init /\ [][NextAddClear]_vars

\* the expense tracker started on a fresh directory, its user typing anything
\* float() accepts
NextLedger ==
    \/ ExpenseStartup
    \/ \E name \in Names :
       \E amounts \in AnyAmountAnswers :
       \E categories \in CategoryAnswers :
           ExpenseAdd(name, amounts, categories)
    \/ \E choice \in NumberInputs : ExpenseDelete(choice)
    \/ ExpenseClear
    \/ ExpenseReport
    \/ Tick
    \/ Exit

InitLedger == Init /\ app = "expense"

SpecLedger == InitLedger /\ [][NextLedger]_vars

\* every tool started on a fresh directory, the expense tracker's user typing
\* anything float() accepts, and giving only the commands that change a list:
\* the lists the three tools can build
NextBuild ==
    \/ ExpenseStartup
    \/ \E name \in Names :
       \E amounts \in AnyAmountAnswers :
       \E categories \in CategoryAnswers :
           ExpenseAdd(name, amounts, categories)
    \/ \E choice \in NumberInputs : ExpenseDelete(choice)
    \/ ExpenseClear
    \/ HabitStartup
    \/ \E name \in Names : HabitAdd(name)
    \/ \E choice \in NumberInputs : HabitDelete(choice)
    \/ \E confirm \in Confirmations : HabitClear(confirm)
    \/ \E choice \in NumberInputs : HabitMark(choice)
    \/ TodoStartup
    \/ \E raw \in TaskInputs : TodoAdd(raw)
    \/ \E choice \in NumberInputs : TodoRemove(choice)
    \/ \E confirm \in Confirmations : TodoClear(confirm)
    \/ Tick

SpecBuild == Init /\ [][NextBuild]_vars

\* files left by earlier runs or edited by hand: any IDs, duplicates included
LoadedIds == {-1, 1, 2}
LoadedNames == {"a", "b"}
LoadedDay == [year |-> 2024, month |-> 2, day |-> 27]

LoadedExpenses ==
    {[id |-> i, name |-> n, amount |-> Finite(5), category |-> "Food",
      created_on |-> isoformat(LoadedDay), notes |-> <<>>] :
        i \in LoadedIds, n \in LoadedNames}

LoadedHabits ==
    {[id |-> i, name |-> n, created_on |-> isoformat(LoadedDay),
      completed_dates |-> <<>>] : i \in LoadedIds, n \in LoadedNames}

LoadedTasks == {"a", "b"}

InitLoaded ==
    InitWith({NoFile} \cup {save_to_expense(l) : l \in SeqUpTo(LoadedExpenses, MaxLoaded)},
             {NoFile} \cup {save_habits(l) : l \in SeqUpTo(LoadedHabits, MaxLoaded)},
             {NoFile} \cup {save_tasks(l) : l \in SeqUpTo(LoadedTasks, MaxLoaded)})

\* remove_task called on its own, as any caller of the function may
RemoveTaskCall(index) ==
    /\ TodoRuns
    /\ \E o \in {remove_task(tasks, tasks_file, index)} :
           /\ tasks' = o.list
           /\ tasks_file' = o.file
           /\ lastOp' = Op("remove_task", index, o.ret, o.val, o.saved)
    /\ TodoFrame

NextCore ==
    \/ ExpenseNext
    \/ HabitNext
    \/ TodoNext
    \/ \E index \in -(MaxRecords + 1)..(MaxRecords + 1) : RemoveTaskCall(index)
    \/ Exit

\* the tools started on any file, their functions open to any caller
SpecCore == InitLoaded /\ [][NextCore]_vars


\* the tools started on a file of any content: none, an array of records,
\* text that does not decode, or text that decodes to something else
InitAnyFile ==
    InitWith({NoFile, CorruptFile, ObjectFile, NullFile}
                 \cup {save_to_expense(l) : l \in SeqUpTo(LoadedExpenses, MaxLoaded - 1)},
             {NoFile, CorruptFile, ObjectFile, NullFile}
                 \cup {save_habits(l) : l \in SeqUpTo(LoadedHabits, MaxLoaded - 1)},
             {NoFile, CorruptFile, ObjectFile, NullFile}
                 \cup {save_tasks(l) : l \in SeqUpTo(LoadedTasks, MaxLoaded - 1)})

NextAnyFile ==
    \/ ExpenseNext
    \/ HabitNext
    \/ TodoNext
    \/ NonListNext
    \/ Exit

SpecAnyFile == InitAnyFile /\ [][NextAnyFile]_vars

\* the expense tracker started on a file that holds expenses of this month, of
\* last month and of this month a year ago, some in a category the tool does
\* not know
ReportDays == { [year |-> 2024, month |-> 2, day |-> 27],
                [year |-> 2024, month |-> 1, day |-> 31],
                [year |-> 2023, month |-> 2, day |-> 28] }
ReportAmounts == {Finite(5), Finite(7)}
ReportCategories == {"Food", "Housing", "Misc"}

ReportShapes ==
    [amount : ReportAmounts, category : ReportCategories, day : ReportDays]

\* the list add_expense would have built from the shapes, IDs counted from 1
ReportList(shapes) ==
    [i \in 1..Len(shapes) |->
        [id |-> i, name |-> "a", amount |-> shapes[i].amount,
         category |-> shapes[i].category,
         created_on |-> isoformat(shapes[i].day), notes |-> <<>>]]

InitReport ==
    /\ InitWith({save_to_expense(ReportList(shapes)) :
                     shapes \in SeqUpTo(ReportShapes, MaxLoaded)},
                {NoFile}, {NoFile})
    /\ app = "expense"

NextReport ==
    \/ ExpenseStartup
    \/ ExpenseReport
    \/ Tick

SpecReport == InitReport /\ [][NextReport]_vars

\* the habit tracker started on a file that records completions of earlier days
MaxWindow == 4      \* days the recorded completions and the start day span

StreakEpochs == { [year |-> 2023, month |-> 12, day |-> 29],
                  [year |-> 2024, month |-> 2,  day |-> 27] }

StreakDays(epoch) ==
    {FromOrdinal(ToOrdinal(epoch) + i) : i \in 0..(MaxWindow - 1)}

\* the days of S as mark_complete appends them: one per day, in order of time
InOrderOfTime(S) ==
    CHOOSE q \in [1..Cardinality(S) -> S] :
        \A i, j \in 1..Cardinality(S) : i < j => ToOrdinal(q[i]) < ToOrdinal(q[j])

InitStreak ==
    /\ app = "habit"
    /\ pc = "start"
    /\ expense = <<>>
    /\ habits = <<>>
    /\ tasks = <<>>
    /\ expense_file = NoFile
    /\ tasks_file = NoFile
    /\ loaded_type = "list"
    /\ \E epoch \in StreakEpochs :
           /\ today \in StreakDays(epoch)
           /\ \E S \in SUBSET StreakDays(epoch) :
                  habits_file =
                      save_habits(<<[id |-> 1, name |-> "a",
                                     created_on |-> isoformat(epoch),
                                     completed_dates |->
                                         [i \in 1..Cardinality(S) |->
                                             isoformat(InOrderOfTime(S)[i])]]>>)
    /\ lastOp = NoOp
    /\ maxIssued = 0

NextStreak ==
    \/ HabitStartup
    \/ HabitView
    \/ \E choice \in NumberInputs : HabitMark(choice)

SpecStreak == InitStreak /\ [][NextStreak]_vars

\* the same habit tracker, its user also adding habits and staying over midnight
NextStreakAdd ==
    \/ NextStreak
    \/ \E name \in Names : HabitAdd(name)
    \/ Tick

SpecStreakAdd == InitStreak /\ [][NextStreakAdd]_vars


-----------------------------------------------------------------------------
(* Properties *)

\* the two trackers that key their records by ID
IdApps == {"expense", "habit"}

\* the running tracker's list, its file, and the list its file decodes to
Store == IF app = "expense" THEN expense ELSE habits
StoreFile == IF app = "expense" THEN expense_file ELSE habits_file
StoreLoaded ==
    IF app = "expense" THEN LoadExpenses(expense_file.text)
    ELSE LoadHabits(habits_file.text)

Positions(s) == 1..Len(s)

\* i is the first position of s whose record has the ID id
IsFirstWithId(s, i, id) ==
    /\ i \in Positions(s)
    /\ s[i].id = id
    /\ \A j \in 1..(i - 1) : s[j].id # id

\* the handler called the core function: it neither found the list empty nor
\* rejected the text typed
Called(op) == op.ret \notin {"empty", "ValueError", "invalid", "declined"}

TodayStr == <<today.year, today.month, today.day>>

\* C1, as first stated: in the expense and habit trackers, from an empty store
\* and under adds and deletes by ID only, every add assigns an ID greater than
\* every ID an earlier add assigned.
C1_IdsStrictlyIncreasing ==
    [][(app \in IdApps /\ lastOp'.op = "add") => lastOp'.arg > maxIssued]_vars

\* C1, amended: an add assigns an ID greater than every ID assigned before
\* exactly when no ID was assigned yet or the record holding the largest ID
\* assigned so far is still in the store; deleting that record makes the next
\* add assign an ID that was assigned before.
C1_IncreasingWhileLargestKept ==
    [][(app \in IdApps /\ lastOp'.op = "add") =>
           (lastOp'.arg > maxIssued <=>
               (maxIssued = 0 \/ \E i \in Positions(Store) : Store[i].id = maxIssued))]_vars

\* add 1, add 2, delete 1, add 3
C1_Witness ==
    /\ app \in IdApps
    /\ lastOp.op = "add" /\ lastOp.arg = 3
    /\ Len(Store) = 2 /\ Store[1].id = 2 /\ Store[2].id = 3

\* C2: from an empty store, in every reachable state of the expense and habit
\* trackers the IDs in the store are positive and pairwise different.
C2_IdsUniquePositive ==
    app \in IdApps =>
        \A i \in Positions(Store) :
            /\ Store[i].id > 0
            /\ \A j \in Positions(Store) : i # j => Store[i].id # Store[j].id

\* two records in the store, the second added after a delete left a gap
C2_Witness ==
    /\ app \in IdApps
    /\ lastOp.op = "add"
    /\ Len(Store) = 2 /\ Store[1].id = 2 /\ Store[2].id = 3
    /\ maxIssued = 3

\* C3: while a tool waits for the next command, its file exists and decodes to
\* the list in memory (and is the dump of that list).
C3_FileMatchesMemory ==
    pc = "menu" =>
        CASE app = "expense" ->
                 /\ expense_file.exists
                 /\ LoadExpenses(expense_file.text) = expense
                 /\ expense_file.text = DumpExpenses(expense)
          [] app = "habit" ->
                 /\ habits_file.exists
                 /\ LoadHabits(habits_file.text) = habits
                 /\ habits_file.text = DumpHabits(habits)
          [] OTHER ->
                 /\ tasks_file.exists
                 /\ LoadTasks(tasks_file.text) = tasks
                 /\ tasks_file.text = DumpTasks(tasks)

\* a delete has removed one of two expenses
C3_Witness ==
    /\ app = "expense" /\ pc = "menu"
    /\ lastOp.op = "delete" /\ lastOp.ret = "record"
    /\ expense # <<>>

\* C4: delete-by-ID with an ID that no record has returns None, leaves the list
\* as it was and does not write the file.
C4_DeleteMissingId ==
    [][(/\ app \in IdApps
        /\ lastOp'.op = "delete" /\ Called(lastOp')
        /\ \A i \in Positions(Store) : Store[i].id # lastOp'.arg)
       => (/\ lastOp'.ret = "None"
           /\ ~lastOp'.saved
           /\ Store' = Store
           /\ StoreFile' = StoreFile)]_vars

C4_Witness ==
    /\ app \in IdApps
    /\ lastOp.op = "delete" /\ lastOp.ret = "None"
    /\ Store # <<>>

\* n is 1 for the empty list and otherwise one more than an ID of the list
\* and greater than every ID of the list
IsNextIdOf(n, s) ==
    IF s = <<>> THEN n = 1
    ELSE /\ \E i \in Positions(s) : n = s[i].id + 1
         /\ \A i \in Positions(s) : s[i].id < n

\* C5: get_next_id of the current list is 1 if the list is empty and otherwise
\* its largest ID plus one, so greater than every ID in it, whatever IDs the
\* list was loaded with; and that is the ID an add assigns.
C5_NextIdAboveAll ==
    [][(app \in IdApps /\ pc = "menu") =>
           /\ IsNextIdOf(get_next_id(Store), Store)
           /\ (lastOp'.op = "add" =>
                   /\ IsNextIdOf(lastOp'.arg, Store)
                   /\ Store'[Len(Store')].id = lastOp'.arg)]_vars

\* an add on a list loaded with the single ID 2
C5_Witness ==
    /\ app \in IdApps
    /\ lastOp.op = "add" /\ lastOp.arg = 3
    /\ Len(Store) = 2 /\ Store[1].id = 2
    /\ Store[1].name = "b"

\* C6: delete-by-ID with an ID present removes the first record with that ID
\* and no other, returns it, and saves the list that remains.
C6_DeleteFirstMatch ==
    [][(/\ app \in IdApps
        /\ lastOp'.op = "delete" /\ Called(lastOp')
        /\ \E i \in Positions(Store) : Store[i].id = lastOp'.arg)
       => \E i \in Positions(Store) :
              /\ IsFirstWithId(Store, i, lastOp'.arg)
              /\ Store' = RemoveAt(Store, i)
              /\ lastOp'.ret = "record"
              /\ lastOp'.val = <<Store[i]>>
              /\ lastOp'.saved
              /\ StoreFile'.exists
              /\ StoreLoaded' = Store']_vars

\* the first of two records sharing an ID was deleted: the second is still there
C6_Witness ==
    /\ app \in IdApps
    /\ lastOp.op = "delete" /\ lastOp.ret = "record"
    /\ \E i \in Positions(Store) :
           Store[i].id = lastOp.arg /\ Store[i].name # lastOp.val[1].name


\* the step removed the task at position pos (1-based), returned it and saved
RemovedAt(pos) ==
    /\ lastOp'.ret = "record"
    /\ lastOp'.val = <<tasks[pos]>>
    /\ tasks' = RemoveAt(tasks, pos)
    /\ lastOp'.saved
    /\ tasks_file'.exists
    /\ LoadTasks(tasks_file'.text) = tasks'

\* the step left the task list and its file alone
TasksUntouched ==
    /\ tasks' = tasks
    /\ tasks_file' = tasks_file
    /\ ~lastOp'.saved

\* C7, as first stated: remove_task removes and returns the task at index when
\* 0 <= index < len, and for every other index, the negative ones included,
\* fails with IndexError and leaves list and file alone.
C7_RemoveTaskRejectsNegative ==
    [][lastOp'.op = "remove_task" =>
           IF 0 <= lastOp'.arg /\ lastOp'.arg < Len(tasks)
           THEN RemovedAt(lastOp'.arg + 1)
           ELSE lastOp'.ret = "IndexError" /\ TasksUntouched]_vars

\* C7, amended: remove_task removes and returns the task at index when
\* 0 <= index < len, removes and returns the task at len + index when
\* -len <= index < 0, and fails with IndexError, list and file left alone, only
\* when index >= len or index < -len; the menu's remove command calls it only
\* with 0 <= index < len and otherwise reports the number invalid and leaves
\* list and file alone.
C7_RemoveTaskPopSemantics ==
    [][/\ lastOp'.op = "remove_task" =>
              IF 0 <= lastOp'.arg /\ lastOp'.arg < Len(tasks)
              THEN RemovedAt(lastOp'.arg + 1)
              ELSE IF -Len(tasks) <= lastOp'.arg /\ lastOp'.arg < 0
              THEN RemovedAt(Len(tasks) + lastOp'.arg + 1)
              ELSE lastOp'.ret = "IndexError" /\ TasksUntouched
       /\ (lastOp'.op = "remove" /\ Called(lastOp')) =>
              /\ 0 <= lastOp'.arg /\ lastOp'.arg < Len(tasks)
              /\ RemovedAt(lastOp'.arg + 1)
       /\ (lastOp'.op = "remove" /\ lastOp'.ret = "invalid") =>
              /\ ~(0 <= lastOp'.arg /\ lastOp'.arg < Len(tasks))
              /\ TasksUntouched]_vars

\* remove_task with index -1 has removed the last of two tasks
C7_Witness ==
    /\ app = "todo"
    /\ lastOp.op = "remove_task" /\ lastOp.arg = -1 /\ lastOp.ret = "record"
    /\ Len(tasks) = 1 /\ tasks[1] # lastOp.val[1]

\* the calendar day before d
PrevDay(d) ==
    IF d.day > 1 THEN [d EXCEPT !.day = @ - 1]
    ELSE IF d.month > 1
    THEN [year |-> d.year, month |-> d.month - 1,
          day |-> DaysInMonth(d.year, d.month - 1)]
    ELSE [year |-> d.year - 1, month |-> 12, day |-> 31]

RECURSIVE DaysBefore(_, _)
\* the calendar day k days before d, written as its date string
DaysBefore(d, k) ==
    IF k = 0 THEN <<d.year, d.month, d.day>> ELSE DaysBefore(PrevDay(d), k - 1)

\* C8: the streak view_habits shows for a habit is the number k such that
\* today, today-1, ..., today-(k-1) are all among its completion dates and
\* today-k is not; it is 0 when today is not among them, whatever earlier days
\* are, and 0 when there are none.
C8_StreakIsRunEndingToday ==
    (app = "habit" /\ lastOp.op = "view") =>
        \A i \in Positions(habits) :
            LET k == lastOp.val[i]
                done == Range(habits[i].completed_dates)
            IN  /\ k >= 0
                /\ \A j \in 0..(k - 1) : DaysBefore(today, j) \in done
                /\ DaysBefore(today, k) \notin done
                /\ (TodayStr \notin done => k = 0)
                /\ (done = {} => k = 0)

\* on 2024-01-01 a streak of 3 that runs back over the end of the year
C8_Witness ==
    /\ app = "habit" /\ lastOp.op = "view"
    /\ today = [year |-> 2024, month |-> 1, day |-> 1]
    /\ habits # <<>> /\ lastOp.val[1] = 3

\* C9: for an ID some habit has, mark_complete looks at the first habit with
\* that ID: if today is not among its completion dates it appends today, saves
\* and returns True; if today is among them it returns False, changes nothing
\* and does not write the file.  Nothing but delete, clear and exit removes a
\* habit or one of its dates, so once marked a habit stays marked that day.
C9_MarkOncePerDay ==
    [][app = "habit" =>
        /\ (/\ lastOp'.op = "mark" /\ Called(lastOp')
            /\ \E i \in Positions(habits) : habits[i].id = lastOp'.arg)
           => \E i \in Positions(habits) :
                  /\ IsFirstWithId(habits, i, lastOp'.arg)
                  /\ IF TodayStr \notin Range(habits[i].completed_dates)
                     THEN /\ lastOp'.ret = "True"
                          /\ habits' = [habits EXCEPT ![i].completed_dates =
                                            Append(@, TodayStr)]
                          /\ lastOp'.saved
                          /\ habits_file'.exists
                          /\ LoadHabits(habits_file'.text) = habits'
                     ELSE /\ lastOp'.ret = "False"
                          /\ habits' = habits
                          /\ habits_file' = habits_file
                          /\ ~lastOp'.saved
        /\ lastOp'.op \in {"mark", "add", "view"} =>
               \A i \in Positions(habits) :
                   /\ i \in Positions(habits')
                   /\ habits'[i].id = habits[i].id
                   /\ Range(habits[i].completed_dates)
                          \subseteq Range(habits'[i].completed_dates)]_vars

\* a second mark of the same habit on the same day
C9_Witness ==
    /\ app = "habit"
    /\ lastOp.op = "mark" /\ lastOp.ret = "False"
    /\ \E i \in Positions(habits) :
           habits[i].id = lastOp.arg /\ TodayStr \in Range(habits[i].completed_dates)

\* C10: from an empty habit store, no habit ever holds the same completion
\* date twice.
C10_NoDuplicateDates ==
    app = "habit" =>
        \A i \in Positions(habits) :
            \A j, k \in Positions(habits[i].completed_dates) :
                j # k => habits[i].completed_dates[j] # habits[i].completed_dates[k]

\* a habit marked on two days, and marked again on the second
C10_Witness ==
    /\ app = "habit"
    /\ lastOp.op = "mark" /\ lastOp.ret = "False"
    /\ \E i \in Positions(habits) : Len(habits[i].completed_dates) = 2

\* the running tool's list, its file, and the list a file's text decodes to
Kept ==
    CASE app = "expense" -> expense
      [] app = "habit"   -> habits
      [] OTHER           -> tasks
KeptFile ==
    CASE app = "expense" -> expense_file
      [] app = "habit"   -> habits_file
      [] OTHER           -> tasks_file
Decoded(file) ==
    CASE app = "expense" -> LoadExpenses(file.text)
      [] app = "habit"   -> LoadHabits(file.text)
      [] OTHER           -> LoadTasks(file.text)

\* the expense e was created in the month and the year of the date d
InMonthOf(e, d) == e.created_on[1] = d.year /\ e.created_on[2] = d.month

RECURSIVE FSum(_)
\* the float sum of the amounts of a list of expenses, taken from 0.0 in the
\* order of the list
FSum(list) ==
    IF list = <<>> THEN Finite(0)
    ELSE FAdd(FSum(SubSeq(list, 1, Len(list) - 1)), list[Len(list)].amount)

\* the expenses of e.g. one category that count for today's report
OfThisMonth(category) ==
    SelectSeq(expense, LAMBDA e : InMonthOf(e, today) /\ e.category = category)
AllOfThisMonth == SelectSeq(expense, LAMBDA e : InMonthOf(e, today))

\* the report printed one line with a total for every category, the total of
\* the month's expenses of that category (0 when there is none), and a grand
\* total of all the month's expenses
ReportedTotals ==
    /\ lastOp.ret = "None"
    /\ \A c \in Range(CATEGORIES) :
           \E k \in Positions(lastOp.val.lines) :
               /\ lastOp.val.lines[k].category = c
               /\ lastOp.val.lines[k].total = FSum(OfThisMonth(c))
    /\ lastOp.val.total_spent = FSum(AllOfThisMonth)

\* C11, as first stated: for every expense collection and reference date the
\* monthly report yields a total for every category (0 for a category with no
\* matching record) and a grand total, a record counting exactly when its
\* creation date has the month and the year of the reference date.
C11_ReportTotalsAlways ==
    lastOp.op = "report" => ReportedTotals

\* C11, amended: that holds for every collection that is not empty and whose
\* records of the reference month have categories of CATEGORIES.  For the
\* empty collection the report says only that nothing is recorded and yields
\* no totals; a record of the reference month with a category outside
\* CATEGORIES makes the report fail with KeyError and ends the program.
C11_ReportTotals ==
    lastOp.op = "report" =>
        IF expense = <<>>
        THEN lastOp.ret = "empty" /\ lastOp.val = <<>>
        ELSE IF \E i \in Positions(expense) :
                    /\ InMonthOf(expense[i], today)
                    /\ expense[i].category \notin Range(CATEGORIES)
        THEN lastOp.ret = "KeyError" /\ pc = "crashed"
        ELSE ReportedTotals

\* two Food expenses, one of this month and one of the same month a year ago:
\* the report counts the first only
C11_Witness ==
    /\ lastOp.op = "report" /\ lastOp.ret = "None"
    /\ Len(expense) = 2
    /\ expense[1].category = "Food" /\ expense[2].category = "Food"
    /\ InMonthOf(expense[1], today)
    /\ expense[2].created_on[2] = today.month /\ expense[2].created_on[1] # today.year
    /\ lastOp.val.total_spent = expense[1].amount

\* the list s in another order: the element at p[i] put at position i
Reordered(s, p) == [i \in 1..Len(s) |-> s[p[i]]]

\* the categories of the lines of a report, in the order printed
LineCategories(report) ==
    [k \in 1..Len(report.lines) |-> report.lines[k].category]

\* C12: whenever the monthly report prints totals it prints one line per
\* category in the order Housing, Food, Transportation, Utilities, Healthcare,
\* Savings, Debt, Shopping, Entertainment, each category once, and it does so
\* for the same expenses inserted in any other order.
C12_ReportInCategoryOrder ==
    (lastOp.op = "report" /\ lastOp.ret = "None") =>
        /\ LineCategories(lastOp.val) =
               <<"Housing", "Food", "Transportation", "Utilities", "Healthcare",
                 "Savings", "Debt", "Shopping", "Entertainment">>
        /\ \A p \in Permutations(1..Len(expense)) :
               LineCategories(view_monthly_report(Reordered(expense, p),
                                                  expense_file, today).val)
                   = LineCategories(lastOp.val)

\* a Food expense inserted before a Housing expense, both of this month
C12_Witness ==
    /\ lastOp.op = "report" /\ lastOp.ret = "None"
    /\ Len(expense) = 2
    /\ expense[1].category = "Food" /\ expense[2].category = "Housing"
    /\ InMonthOf(expense[1], today) /\ InMonthOf(expense[2], today)

FixedCategories ==
    {"Housing", "Food", "Transportation", "Utilities", "Healthcare", "Savings",
     "Debt", "Shopping", "Entertainment"}

\* C13: from an empty expense store, every expense in the list and every
\* expense in the file has one of the nine fixed categories; an add has read
\* category answers until one was, stripped and title-cased, one of the nine:
\* no answer before the last was, and the record appended and saved has the last.
C13_CategoriesValid ==
    app = "expense" =>
        /\ \A i \in Positions(expense) : expense[i].category \in FixedCategories
        /\ \A i \in Positions(expense_file.text) :
               expense_file.text[i].category[2] \in FixedCategories
        /\ lastOp.op = "add" =>
               /\ \A k \in 1..(Len(lastOp.val) - 1) :
                      Title(lastOp.val[k]) \notin FixedCategories
               /\ expense[Len(expense)].category = Title(lastOp.val[Len(lastOp.val)])
               /\ expense_file.text[Len(expense)].category[2]
                      = Title(lastOp.val[Len(lastOp.val)])

\* an add whose first category answer was turned down
C13_Witness ==
    /\ app = "expense" /\ lastOp.op = "add"
    /\ Len(lastOp.val) > 1
    /\ Title(lastOp.val[1]) = "Misc"
    /\ expense[Len(expense)].category = "Food"

\* 0 <= x on floats
NonNegative(x) == ~x.nan /\ x.val >= 0

\* C14: from an empty expense store, every stored amount is non-negative, and
\* every per-category total and the grand total of a monthly report are
\* non-negative, the grand total equal to the sum of the per-category totals.
C14_AmountsAndTotalsNonNegative ==
    app = "expense" =>
        /\ \A i \in Positions(expense) : NonNegative(expense[i].amount)
        /\ (lastOp.op = "report" /\ lastOp.ret = "None") =>
               /\ \A k \in Positions(lastOp.val.lines) :
                      NonNegative(lastOp.val.lines[k].total)
               /\ NonNegative(lastOp.val.total_spent)
               /\ FEq(lastOp.val.total_spent,
                      FSum([k \in Positions(lastOp.val.lines) |->
                               [amount |-> lastOp.val.lines[k].total]]))

\* C15: at startup of each tool, if the file does not exist it is created
\* holding the empty list and the list in memory starts empty; if it exists
\* (holding an array of records), the list in memory starts as all the records
\* the file decodes to, in their order, and the file is left as it was.
C15_StartupLoads ==
    [][lastOp'.op = "startup" =>
           /\ pc' = "menu"
           /\ IF ~KeptFile.exists
              THEN /\ KeptFile'.exists
                   /\ KeptFile'.kind = "array" /\ KeptFile'.text = <<>>
                   /\ Kept' = <<>>
              ELSE /\ KeptFile' = KeptFile
                   /\ ~lastOp'.saved
                   /\ Len(Kept') = Len(KeptFile.text)
                   /\ Kept' = Decoded(KeptFile)]_vars

\* a tool started on a file of two records
C15_Witness ==
    /\ lastOp.op = "startup" /\ ~lastOp.saved
    /\ Len(Kept) = MaxLoaded
    /\ KeptFile.exists /\ Len(KeptFile.text) = MaxLoaded

\* C16: if the file found at startup does not hold a decodable array of
\* records, startup fails: the program does not enter the menu loop and the
\* file is never written.
C16_InvalidContentIsFatal ==
    [][(KeptFile.exists /\ KeptFile.kind # "array") =>
           /\ pc' # "menu"
           /\ ~lastOp'.saved
           /\ KeptFile' = KeptFile]_vars

\* C17: a clear that is carried out leaves the list in memory empty and writes
\* the file, which then holds the empty array, whatever the list held before;
\* on a list already empty it does the same.
C17_ClearEmptiesAndPersists ==
    [][(lastOp'.op = "clear" /\ Called(lastOp')) =>
           /\ lastOp'.arg = Len(Kept)
           /\ Kept' = <<>>
           /\ lastOp'.saved
           /\ KeptFile'.exists
           /\ KeptFile'.kind = "array" /\ KeptFile'.text = <<>>
           /\ Decoded(KeptFile') = <<>>]_vars

\* a tracker's clear carried out on an empty list
C17_Witness ==
    /\ app \in IdApps
    /\ lastOp.op = "clear" /\ lastOp.ret = "None" /\ lastOp.arg = 0
    /\ Kept = <<>> /\ KeptFile.exists /\ KeptFile.text = <<>>

\* C18: an add that stores a record makes the list one longer, the records it
\* held before unchanged and in their order, the new record last; in the two
\* trackers the new record has the ID get_next_id gives for the list as it was
\* before: 1 for the empty list, otherwise one more than its largest ID.
C18_AddAppendsLast ==
    [][(lastOp'.op = "add" /\ lastOp'.saved) =>
           /\ Len(Kept') = Len(Kept) + 1
           /\ \A i \in Positions(Kept) : Kept'[i] = Kept[i]
           /\ app \in IdApps =>
                  /\ Kept'[Len(Kept')].id = get_next_id(Kept)
                  /\ IsNextIdOf(Kept'[Len(Kept')].id, Kept)
                  /\ Kept'[Len(Kept')].created_on = TodayStr
           /\ app = "todo" => Kept'[Len(Kept')] \in {Strip(raw) : raw \in TaskInputs}
           /\ Decoded(KeptFile') = Kept']_vars

\* an add to a list loaded with one record whose ID is 2
C18_Witness ==
    /\ app \in IdApps
    /\ lastOp.op = "add" /\ lastOp.saved
    /\ Len(Kept) = 2
    /\ Kept[1].id = 2 /\ Kept[1].name = "b" /\ Kept[2].id = 3 /\ Kept[2].name = "a"
    /\ Kept[1].created_on # Kept[2].created_on

\* C19: the view command of the habit tracker (which computes every streak)
\* and of the to-do list, the monthly report, and the listing that the delete,
\* mark and remove commands show before they prompt, leave the list in memory
\* and the file as they were and write nothing, in every state; so does
\* view_expense on the list of any state.
C19_ViewsChangeNothing ==
    [][/\ (\/ lastOp'.op \in {"view", "report"}
           \/ lastOp'.ret \in {"ValueError", "invalid"}) =>
              /\ Kept' = Kept
              /\ KeptFile' = KeptFile
              /\ ~lastOp'.saved
       /\ (app = "expense" /\ pc = "menu") =>
              /\ view_expense(expense, expense_file).list = expense
              /\ view_expense(expense, expense_file).file = expense_file
              /\ ~view_expense(expense, expense_file).saved]_vars

\* a view of two tasks
C19_Witness ==
    /\ app = "todo"
    /\ lastOp.op = "view" /\ Len(lastOp.val) = 2
    /\ Len(tasks) = 2 /\ Len(tasks_file.text) = 2

\* what json.dump writes for the running tool's list
Dumped(list) ==
    CASE app = "expense" -> DumpExpenses(list)
      [] app = "habit"   -> DumpHabits(list)
      [] OTHER           -> DumpTasks(list)

\* a JSON string that holds a calendar date in ISO form
IsDateString(j) ==
    /\ j[1] = "str"
    /\ j[2][2] \in 1..12
    /\ j[2][3] \in 1..DaysInMonth(j[2][1], j[2][2])

\* the types of the values in the text of a dumped list
WellTyped(text) ==
    \A i \in Positions(text) :
        /\ app \in IdApps => text[i].id[1] = "int" /\ IsDateString(text[i].created_on)
        /\ app = "expense" => text[i].amount[1] = "float"
        /\ app = "habit" =>
               \A k \in Positions(text[i].completed_dates[2]) :
                   IsDateString(text[i].completed_dates[2][k])
        /\ app = "todo" => text[i][1] = "str"

\* the list of a state round-trips through dump and load
RoundTrips ==
    \E text \in {Dumped(Kept)} :
        /\ Decoded(FileOf(text)) = Kept
        /\ Dumped(Decoded(FileOf(text))) = text
        /\ WellTyped(text)

SameButMarked(i) ==
    /\ Kept'[i].id = Kept[i].id
    /\ Kept'[i].name = Kept[i].name
    /\ Kept'[i].created_on = Kept[i].created_on
    /\ Kept'[i].completed_dates = Append(Kept[i].completed_dates, TodayStr)

\* C21: while a tool runs, a step changes its list in one of these ways only:
\* add puts one record after the records there, which stay as they are; mark
\* appends today's date to the completion dates of the first habit with the ID
\* typed, when it answers True, and leaves the ID, the name and the creation
\* date of that habit and every other habit as they are; delete and remove
\* take out one record, delete one with the ID typed, and leave the others as
\* they are and in their order; clear takes out every record; every other
\* step, the passing of midnight included, leaves the list as it is.
C21_RecordsFixedWhileStored ==
    [][lastOp'.op \notin {"startup", "exit"} =>
          CASE lastOp'.op = "add" ->
                   /\ Len(Kept') \in {Len(Kept), Len(Kept) + 1}
                   /\ \A i \in Positions(Kept) : Kept'[i] = Kept[i]
            [] lastOp'.op = "mark" ->
                   /\ Len(Kept') = Len(Kept)
                   /\ \A i \in Positions(Kept) :
                          \/ Kept'[i] = Kept[i]
                          \/ /\ lastOp'.ret = "True"
                             /\ IsFirstWithId(Kept, i, lastOp'.arg)
                             /\ SameButMarked(i)
            [] lastOp'.op \in {"delete", "remove"} ->
                   \/ Kept' = Kept
                   \/ \E i \in Positions(Kept) :
                          /\ Kept' = RemoveAt(Kept, i)
                          /\ app \in IdApps => Kept[i].id = lastOp'.arg
            [] lastOp'.op = "clear" -> Kept' \in {Kept, <<>>}
            [] OTHER -> Kept' = Kept]_vars

\* the second of two habits was marked on a day after the day it was created
\* on, and the first has a completion of its own
C21_Witness ==
    /\ app = "habit"
    /\ lastOp.op = "mark" /\ lastOp.ret = "True"
    /\ Len(habits) = 2
    /\ habits[2].id = lastOp.arg
    /\ habits[2].created_on # TodayStr
    /\ habits[1].completed_dates # <<>>
    /\ habits[2].completed_dates = <<TodayStr>>

\* the text typed at the task prompt that is empty once stripped
BlankInputs == {raw \in TaskInputs : Strip(raw) = ""}

\* C22: in the to-do list started on an empty list, add_task given empty text
\* or only spaces returns the list and the file it was given and saves
\* nothing; an add step that saved nothing left the list and the file as they
\* were, and one that saved put a task that is not the empty string last; so
\* after every step no task of the list, and none in the file, is the empty
\* string.
C22_NoEmptyTask ==
    [][app = "todo" =>
          /\ \A raw \in BlankInputs :
                 /\ add_task(tasks, tasks_file, raw).list = tasks
                 /\ add_task(tasks, tasks_file, raw).file = tasks_file
                 /\ ~add_task(tasks, tasks_file, raw).saved
          /\ lastOp'.op = "add" =>
                 IF lastOp'.saved
                 THEN /\ tasks' = Append(tasks, tasks'[Len(tasks')])
                      /\ tasks'[Len(tasks')] # ""
                 ELSE tasks' = tasks /\ tasks_file' = tasks_file
          /\ \A i \in Positions(tasks') : tasks'[i] # ""
          /\ \A i \in Positions(tasks_file'.text) :
                 DecodeTask(tasks_file'.text[i]) # ""]_vars

\* an add that stored nothing, on a list that holds a task
C22_Witness ==
    /\ app = "todo"
    /\ lastOp.op = "add" /\ ~lastOp.saved
    /\ Len(tasks) = 1 /\ tasks[1] = "b"
    /\ tasks_file = save_tasks(tasks)

\* C23: in the two trackers, an add gives the new record the ID get_next_id
\* computes from the records in the list at that moment; on an empty list that
\* ID is 1, whatever IDs were given out before, and so the add that follows a
\* clear of a list that held records gives out 1 again.
C23_IdsRestartAfterClear ==
    [][(app \in IdApps /\ lastOp'.op = "add" /\ lastOp'.saved) =>
          /\ lastOp'.arg = get_next_id(Kept)
          /\ Kept'[Len(Kept')].id = lastOp'.arg
          /\ Kept = <<>> => lastOp'.arg = 1
          /\ (lastOp.op = "clear" /\ lastOp.saved /\ lastOp.arg > 0) =>
                 /\ lastOp'.arg = 1
                 /\ lastOp'.arg <= maxIssued]_vars

\* with only adds and clears: the ID 1 was given out when 2 had been given out
C23_Witness ==
    /\ app \in IdApps
    /\ lastOp.op = "add" /\ lastOp.saved /\ lastOp.arg = 1
    /\ maxIssued >= 2
    /\ Len(Kept) = 1 /\ Kept[1].id = 1

\* the habits that have the ID
WithId(id) == {i \in Positions(habits) : habits[i].id = id}

\* C24: when the mark command calls mark_complete, the answer is None exactly
\* when no habit has the ID typed, and then the habits and the file are as
\* they were and nothing was saved; when habits have the ID, the answer is True
\* or False by whether today is missing from the completion dates of the first
\* of them, whatever the dates of the later ones, and every habit but that
\* first one is as it was.
C24_MarkMissingOrShared ==
    [][(app = "habit" /\ lastOp'.op = "mark" /\ Called(lastOp')) =>
          /\ lastOp'.ret \in {"True", "False", "None"}
          /\ lastOp'.ret = "None" <=> WithId(lastOp'.arg) = {}
          /\ lastOp'.ret = "None" =>
                 /\ habits' = habits
                 /\ habits_file' = habits_file
                 /\ ~lastOp'.saved
          /\ Len(habits') = Len(habits)
          /\ \A i \in Positions(habits) :
                 IF IsFirstWithId(habits, i, lastOp'.arg)
                 THEN /\ lastOp'.ret = "True" <=>
                             TodayStr \notin Range(habits[i].completed_dates)
                      /\ lastOp'.ret = "False" => habits'[i] = habits[i]
                 ELSE habits'[i] = habits[i]]_vars

\* two habits share the ID typed; the first was already marked today, so the
\* answer was False and the second is still unmarked
C24_WitnessShared ==
    /\ app = "habit"
    /\ lastOp.op = "mark" /\ lastOp.ret = "False"
    /\ Len(habits) = 2
    /\ habits[1].id = lastOp.arg /\ habits[2].id = lastOp.arg
    /\ TodayStr \in Range(habits[1].completed_dates)
    /\ habits[2].completed_dates = <<>>

\* the ID typed was the ID of no habit of a list that holds habits
C24_Witness ==
    /\ app = "habit"
    /\ lastOp.op = "mark" /\ lastOp.ret = "None"
    /\ Len(habits) = 2
    /\ \A i \in Positions(habits) : habits[i].id # lastOp.arg

\* the number of distinct completion dates of a habit
DistinctDates(habit) == Cardinality(Range(habit.completed_dates))

\* C25: for every habit of the list, on the day of the state, the loop of
\* get_streak ends with a count that is at least 0 and at most the number of
\* distinct completion dates of the habit (its body runs once for each day it
\* counts, so it runs no more often than that), and view_habits shows that
\* count; the count is 0 for the habit an add has just put in the list, and
\* at least 1 for the habit that mark_complete has just marked and for every
\* habit that has today among its dates.
C25_StreakBounded ==
    app = "habit" =>
        /\ \A i \in Positions(habits) :
               \E streak \in {get_streak(habits[i], today)} :
                   /\ streak \in 0..DistinctDates(habits[i])
                   /\ lastOp.op = "view" => lastOp.val[i] = streak
                   /\ TodayStr \in Range(habits[i].completed_dates) => streak >= 1
                   /\ (lastOp.op = "mark" /\ lastOp.ret = "True"
                          /\ IsFirstWithId(habits, i, lastOp.arg)) => streak >= 1
        /\ (lastOp.op = "add" /\ lastOp.saved) =>
               get_streak(habits[Len(habits)], today) = 0

\* a habit with three dates, of which the streak counts two: the one before
\* the gap is left out; and the habit was marked on this day
C25_Witness ==
    /\ app = "habit"
    /\ lastOp.op = "mark" /\ lastOp.ret = "True"
    /\ \E i \in Positions(habits) :
           /\ IsFirstWithId(habits, i, lastOp.arg)
           /\ DistinctDates(habits[i]) = 3
           /\ get_streak(habits[i], today) = 2

\* a habit just added next to one that has a streak
C25_WitnessAdded ==
    /\ app = "habit"
    /\ lastOp.op = "add" /\ lastOp.saved
    /\ Len(habits) = 2
    /\ get_streak(habits[1], today) >= 2
    /\ get_streak(habits[2], today) = 0

====
